---- MODULE Spec2Model ----
(***************************************************************************)
(* Model of the helper functions of the anomaly-detection notebooks:       *)
(*   precision_at_n, custom_average_precision and the adjusted P@n cell    *)
(*   (Evaluating_Anomaly_Detection_student.ipynb), and cusum               *)
(*   (time-series notebook, src/unnamed/part_001), misclass_cost, and the  *)
(*   feature_bagging function and labelling cell of src/unnamed/part_000.  *)
(* Real numbers are modelled exactly: a quotient is a normalised fraction  *)
(* <<num, den>>; a quotient with a zero divisor is the IEEE value numpy    *)
(* produces (<<0,0>> is nan, <<1,0>> is inf, <<-1,0>> is -inf).            *)
(***************************************************************************)
EXTENDS Integers, Sequences, FiniteSets, TLC

\* ---------------------------------------------------------------- bounds
MaxLen == 3          \* longest label / score sequence drawn
MaxScore == 2        \* scores are drawn from 0..MaxScore (ties happen)
MaxSeries == 3       \* longest time series drawn
MaxVal == 2          \* series values are drawn from -MaxVal..MaxVal
MaxCount == 2        \* each cell of the confusion matrix is drawn from 0..MaxCount
MaxCost == 2         \* the two costs are drawn from -1..MaxCost
MaxCalls == 2        \* calls each thread makes one after the other
MaxNorm == 2         \* norm_pts is drawn from 0..MaxNorm
MaxAnom == 2         \* anom_pts is drawn from 0..MaxAnom
MaxDim == 5          \* the data handed to feature_bagging has 1..MaxDim columns

\* parameters handed to cusum; negative shifts and thresholds are not rejected
Means == {0, 1}
Shifts == {-1, 0, 1}
Thresholds == {-1, 0, 1, 2}

VARIABLES
    y_is_anomaly_true,  \* labels handed to the metric functions
    y_scores,           \* scores handed to the metric functions
    n_max,              \* cap handed to precision_at_n
    pc,                 \* "ready" until a metric cell has run, then its name
    result,             \* outcome of the metric call: [kind, val]
    ave_precision,      \* what average_precision_score returned (<<0,0>>: not called)
    data,               \* the time series handed to cusum (values, in time order)
    data_columns,       \* the column names of the caller's frame
    mean, shift, threshold,
    cpc,                \* position inside cusum: "idle", "loop", "done"
    index,              \* number of points the loop has processed
    high_sum, low_sum,  \* the two accumulators
    high_sum_final, low_sum_final,
    anomalies,          \* list of <<index name, value>>
    cusum_ret,          \* the returned frame: rows [index, value, High_Cusum, Low_Cusum]
    cm,                 \* the confusion matrix: [tn, fp, fn, tp]
    false_pos_cost, false_neg_cost,
    mpc,                \* "ready" until the cost cell has run, then "called"
    cost_ret,           \* outcome of misclass_cost: [kind, val]
    stdout,             \* lines printed by misclass_cost
    threads,            \* per thread: the call it is running and the call's locals
    norm_pts, anom_pts, \* numbers of normal and of anomalous points in all_data
    cumulative_scores,  \* one score per point of all_data
    ranking_by_index,   \* what np.argsort returned: positions of the points, from 0
    label_pred,         \* the predicted labels, one 0 or 1 per point
    enum_index,         \* the index enumerate yields next in the labelling loop
    lpc,                \* position in the labelling cells: "ready", "ranked", "loop", "done"
    full_dim,           \* data.shape[1] of the data handed to feature_bagging
    size_subspace,      \* what np.random.randint returned
    subspace_index,     \* what np.random.choice returned, in the order drawn
    subspace_data,      \* the returned array: the input columns it is made of
    bpc                 \* position in feature_bagging: "ready", "sized", "chosen", "done", "raised"

rankVars == <<y_is_anomaly_true, y_scores, n_max, pc, result, ave_precision>>
cusumVars == <<data, data_columns, mean, shift, threshold, cpc, index, high_sum, low_sum,
               high_sum_final, low_sum_final, anomalies, cusum_ret>>
costVars == <<cm, false_pos_cost, false_neg_cost, mpc, cost_ret, stdout>>
labelVars == <<norm_pts, anom_pts, cumulative_scores, ranking_by_index, label_pred,
               enum_index, lpc>>
bagVars == <<full_dim, size_subspace, subspace_index, subspace_data, bpc>>
vars == <<y_is_anomaly_true, y_scores, n_max, pc, result, ave_precision,
          data, data_columns, mean, shift, threshold, cpc, index, high_sum, low_sum,
          high_sum_final, low_sum_final, anomalies, cusum_ret,
          cm, false_pos_cost, false_neg_cost, mpc, cost_ret, stdout, threads,
          norm_pts, anom_pts, cumulative_scores, ranking_by_index, label_pred,
          enum_index, lpc,
          full_dim, size_subspace, subspace_index, subspace_data, bpc>>

\* ------------------------------------------------------------ arithmetic
Min(a, b) == IF a <= b THEN a ELSE b

Max(a, b) == IF a >= b THEN a ELSE b

Abs(a) == IF a < 0 THEN -a ELSE a

Sign(a) == IF a > 0 THEN 1 ELSE IF a < 0 THEN -1 ELSE 0

RECURSIVE Gcd(_, _)
Gcd(a, b) == IF b = 0 THEN a ELSE Gcd(b, a % b)

\* the value of n / d
Rat(n, d) ==
    IF d = 0 THEN <<Sign(n), 0>>
    ELSE LET g == Gcd(Abs(n), Abs(d))
         IN  <<(Sign(d) * n) \div g, Abs(d) \div g>>

RatSub(a, b) == Rat(a[1] * b[2] - b[1] * a[2], a[2] * b[2])

RatAdd(a, b) == Rat(a[1] * b[2] + b[1] * a[2], a[2] * b[2])

RatMul(a, b) == Rat(a[1] * b[1], a[2] * b[2])

RatDiv(a, b) == Rat(a[1] * b[2], a[2] * b[1])

RatLeq(a, b) == a[1] * b[2] <= b[1] * a[2]

IsFinite(a) == a[2] # 0

B2I(b) == IF b THEN 1 ELSE 0

RECURSIVE SumSeq(_)
SumSeq(s) == IF s = <<>> THEN 0 ELSE s[1] + SumSeq(Tail(s))

RECURSIVE RatSum(_)
RatSum(s) == IF s = <<>> THEN Rat(0, 1) ELSE RatAdd(s[1], RatSum(Tail(s)))

\* ------------------------------------------------- python built-ins used
\* zip(a, b): stops at the shorter argument
Zip(a, b) == [i \in 1..Min(Len(a), Len(b)) |-> <<a[i], b[i]>>]

\* mutant: among equal scores the anomalies come first
TupleLess_true_first(a, b) == \/ a[1] < b[1]
                              \/ a[1] = b[1] /\ B2I(a[2]) > B2I(b[2])

\* mutant: only the scores are compared (sorted(..., key=score))
TupleLess_score_only(a, b) == a[1] < b[1]

\* order of python tuples (score, label): by score, then by label, False < True
TupleLess(a, b) == \/ a[1] < b[1]
                   \/ a[1] = b[1] /\ B2I(a[2]) < B2I(b[2])

RECURSIVE Insert(_, _)
Insert(x, s) ==
    IF s = <<>> THEN <<x>>
    ELSE IF TupleLess(x, s[1]) THEN <<x>> \o s
    ELSE <<s[1]>> \o Insert(x, Tail(s))

\* sorted(pairs): ascending, equal elements keep their order
RECURSIVE Sorted(_)
Sorted(s) == IF s = <<>> THEN <<>>
             ELSE Insert(s[Len(s)], Sorted(SubSeq(s, 1, Len(s) - 1)))

\* s[:n]
Slice(s, n) == SubSeq(s, 1, Min(n, Len(s)))

Outcome(k, v) == [kind |-> k, val |-> v]

\* ------------------------------------------------------------ RankMetric
\* mutant: the pairs are ranked most-normal first (sorted(..., reverse=True))
is_anomaly_sorted_descending(labels, scores) ==
    LET srt == Sorted(Zip(scores, labels))
    IN  [i \in 1..Len(srt) |-> srt[Len(srt) + 1 - i][2]]

\* is_anomaly_sorted_by_score: the labels of sorted(zip(y_scores, y_is_anomaly_true))
is_anomaly_sorted_by_score(labels, scores) ==
    LET srt == Sorted(Zip(scores, labels))
    IN  [i \in 1..Len(srt) |-> srt[i][2]]

\* sum(is_anomaly_sorted_by_score[:n])
CountTrue(labs, n) == SumSeq([i \in 1..Len(Slice(labs, n)) |-> B2I(labs[i])])

\* mutant: the comprehension runs over range(0, n_max)
precision_at_n_from_zero(labels, scores, nmax) ==
    LET nm   == IF nmax = 0 THEN Len(scores) ELSE nmax
        labs == is_anomaly_sorted_by_score(labels, scores)
    IN  [n \in 1..Max(nm, 0) |-> Rat(CountTrue(labs, n - 1), n - 1)]

\* mutant: every count is divided by n_max instead of n
precision_at_n_over_total(labels, scores, nmax) ==
    LET nm   == IF nmax = 0 THEN Len(scores) ELSE nmax
        labs == is_anomaly_sorted_by_score(labels, scores)
    IN  [n \in 1..Max(nm, 0) |-> Rat(CountTrue(labs, n), nm)]

\* precision_at_n(y_is_anomaly_true, y_scores, n_max): the returned list
precision_at_n(labels, scores, nmax) ==
    LET nm   == IF nmax = 0 THEN Len(scores) ELSE nmax
        labs == is_anomaly_sorted_by_score(labels, scores)
    IN  [n \in 1..Max(nm, 0) |-> Rat(CountTrue(labs, n), n)]

\* mutant: the sum is divided by the number of observations (a plain mean)
custom_average_precision_mean(labels, scores) ==
    LET is_anomaly == is_anomaly_sorted_by_score(labels, scores)
        p_at_n     == precision_at_n(is_anomaly, scores, 0)
        m          == Len(is_anomaly)
        k          == Len(p_at_n)
        prod       == [j \in 1..k |->
                         RatMul(Rat(B2I(is_anomaly[IF m = k THEN j ELSE 1]), 1), p_at_n[j])]
    IN  IF m = 0 THEN Outcome("IndexError", <<>>)
        ELSE IF m # k /\ m # 1 THEN Outcome("ValueError", <<>>)
        ELSE Outcome("value", <<RatDiv(RatSum(prod), Rat(m, 1))>>)

\* custom_average_precision(y_is_anomaly_true, y_scores): the outcome.
\* The labels are sorted by score and then handed, already sorted, to
\* precision_at_n together with the scores in their original order.
custom_average_precision(labels, scores) ==
    LET is_anomaly == is_anomaly_sorted_by_score(labels, scores)
        p_at_n     == precision_at_n(is_anomaly, scores, 0)
        m          == Len(is_anomaly)
        k          == Len(p_at_n)
        prod       == [j \in 1..k |->
                         RatMul(Rat(B2I(is_anomaly[IF m = k THEN j ELSE 1]), 1), p_at_n[j])]
        total      == SumSeq([i \in 1..m |-> B2I(is_anomaly[i])])
    IN  IF m = 0 THEN Outcome("IndexError", <<>>)            \* 1-d empty array indexed [:, 0]
        ELSE IF m # k /\ m # 1 THEN Outcome("ValueError", <<>>)  \* shapes do not broadcast
        ELSE IF total = 0 THEN Outcome("nan", <<RatDiv(RatSum(prod), Rat(0, 1))>>)
        ELSE Outcome("value", <<RatDiv(RatSum(prod), Rat(total, 1))>>)

\* mutant: the difference is divided by the fraction itself
adjusted_score_by_frac(raw_value, frac_anomalies) ==
    RatDiv(RatSub(raw_value, frac_anomalies), frac_anomalies)

\* (raw_value - frac_anomalies) / (1 - frac_anomalies)
adjusted_score(raw_value, frac_anomalies) ==
    RatDiv(RatSub(raw_value, frac_anomalies), RatSub(Rat(1, 1), frac_anomalies))

\* values the library's average_precision_score may hand back
AvePrecisionValues == UNION {{Rat(k, d) : k \in 0..d} : d \in 1..MaxLen}

\* the cell computing adj_p_at_n and adj_ave_precision from the data frame's
\* labels and the scores of the same rows
adjusted_cell(labels, scores, ap) ==
    LET num_anomalies  == SumSeq([i \in 1..Len(labels) |-> B2I(labels[i])])
        num_points     == Len(labels)
        frac_anomalies == Rat(num_anomalies, num_points)
        p_at_n         == precision_at_n(labels, scores, 0)
    IN  IF num_points = 0 THEN Outcome("ZeroDivisionError", <<>>)  \* int / int
        ELSE Outcome("adjusted",
                 [j \in 1..Len(p_at_n) |-> adjusted_score(p_at_n[j], frac_anomalies)]
                 \o <<adjusted_score(ap, frac_anomalies)>>)

Labels == UNION {[1..n -> BOOLEAN] : n \in 0..MaxLen}

Scores == UNION {[1..n -> 0..MaxScore] : n \in 0..MaxLen}

\* the 4 row example of the lecture (check cell), scores in units of 1e-6
LectureScores == <<-35980, -33510, -5384, 330>>

LectureLabels == <<TRUE, FALSE, TRUE, FALSE>>

InitRank ==
    \* the labelling cells are not run and feature_bagging is not called
    /\ norm_pts = 0 /\ anom_pts = 0 /\ cumulative_scores = <<>>
    /\ ranking_by_index = <<>> /\ label_pred = <<>> /\ enum_index = 0 /\ lpc = "off"
    /\ full_dim = 0 /\ size_subspace = 0 /\ subspace_index = <<>>
    /\ subspace_data = <<>> /\ bpc = "off"
    /\ \/ y_is_anomaly_true \in Labels /\ y_scores \in Scores
       \/ y_is_anomaly_true = LectureLabels /\ y_scores = LectureScores
    /\ n_max \in -1..(MaxLen + 1)
    /\ pc = "ready"
    /\ result = Outcome("none", <<>>)
    /\ ave_precision = <<0, 0>>
    \* no cusum call is made
    /\ data = <<>> /\ data_columns = {} /\ mean = 0 /\ shift = 0 /\ threshold = 0
    /\ cpc = "off" /\ index = 0 /\ high_sum = 0 /\ low_sum = 0
    /\ high_sum_final = <<>> /\ low_sum_final = <<>>
    /\ anomalies = <<>> /\ cusum_ret = <<>>
    \* the cost cell is not run
    /\ cm = [tn |-> 0, fp |-> 0, fn |-> 0, tp |-> 0]
    /\ false_pos_cost = 0 /\ false_neg_cost = 0
    /\ mpc = "off" /\ cost_ret = Outcome("none", <<>>) /\ stdout = <<>>
    /\ threads = <<>>

\* a cell calling precision_at_n(y_true, y_scores, n_max)
Call_precision_at_n ==
    /\ pc = "ready"
    /\ pc' = "precision_at_n"
    /\ result' = Outcome("list", precision_at_n(y_is_anomaly_true, y_scores, n_max))
    /\ UNCHANGED <<y_is_anomaly_true, y_scores, n_max, ave_precision, cusumVars, costVars, threads, labelVars, bagVars>>

\* a cell calling custom_average_precision(y_true, y_scores)
Call_custom_average_precision ==
    /\ pc = "ready"
    /\ pc' = "custom_average_precision"
    /\ result' = custom_average_precision(y_is_anomaly_true, y_scores)
    /\ UNCHANGED <<y_is_anomaly_true, y_scores, n_max, ave_precision, cusumVars, costVars, threads, labelVars, bagVars>>

\* the cell computing the adjusted metrics; labels and scores are columns of
\* one data frame, hence of one length
Call_adjusted ==
    /\ pc = "ready"
    /\ Len(y_is_anomaly_true) = Len(y_scores)
    /\ \E ap \in AvePrecisionValues :
           /\ ave_precision' = ap
           /\ result' = adjusted_cell(y_is_anomaly_true, y_scores, ap)
    /\ pc' = "adjusted"
    /\ UNCHANGED <<y_is_anomaly_true, y_scores, n_max, cusumVars, costVars, threads, labelVars, bagVars>>


\* --------------------------------------------------------- CusumDetector
\* mutant: the loop reads one point ahead (data_values[index + 1])
item_at_ahead(d, i) == d[Min(i + 1, Len(d))]

\* enumerate(data_values): the value of the point at (1-based) position i
item_at(d, i) == d[i]

\* index_names[i]: the index label of the point at position i
index_names(d, i) == i

\* mutant: the high sum is not clamped at 0
next_high_sum_unclamped(high, item, mu, sh) == high + item - mu - sh

\* mutant: the shift is left out of the high sum
next_high_sum_no_shift(high, item, mu, sh) == Max(0, high + item - mu)

\* high_sum = max(0, high_sum + item - mean - shift)
next_high_sum(high, item, mu, sh) == Max(0, high + item - mu - sh)

\* mutant: the shift is subtracted in the low sum as in the high sum
next_low_sum_minus_shift(low, item, mu, sh) == Min(0, low + item - mu - sh)

\* mutant: the low sum is clamped with max as the high sum is
next_low_sum_max(low, item, mu, sh) == Max(0, low + item - mu + sh)

\* low_sum = min(0, low_sum + item - mean + shift)
next_low_sum(low, item, mu, sh) == Min(0, low + item - mu + sh)

\* mutant: a sum equal to the threshold already counts
is_flagged_inclusive(high, low, thr) == high >= thr \/ low <= -thr

\* mutant: only the high sum is tested
is_flagged_high_only(high, low, thr) == high > thr

\* if high_sum > threshold or low_sum < -threshold
is_flagged(high, low, thr) == high > thr \/ low < -thr

\* the accumulators and lists at the top of the function body
cusum_start == [high_sum |-> 0, low_sum |-> 0, anomalies |-> <<>>,
                high_sum_final |-> <<>>, low_sum_final |-> <<>>]

\* one iteration of the for loop, on the point at position i
cusum_iter(st, d, i, mu, sh, thr) ==
    LET item == item_at(d, i)
        h    == next_high_sum(st.high_sum, item, mu, sh)
        l    == next_low_sum(st.low_sum, item, mu, sh)
    IN  [high_sum |-> h, low_sum |-> l,
         high_sum_final |-> Append(st.high_sum_final, h),
         low_sum_final |-> Append(st.low_sum_final, l),
         anomalies |-> IF is_flagged(h, l, thr)
                       THEN Append(st.anomalies, <<index_names(d, i), item>>)
                       ELSE st.anomalies]

\* the loop run over the first k points of d
RECURSIVE cusum_loop(_, _, _, _, _)
cusum_loop(d, k, mu, sh, thr) ==
    IF k = 0 THEN cusum_start
    ELSE cusum_iter(cusum_loop(d, k - 1, mu, sh, thr), d, k, mu, sh, thr)

\* mutant: the sums are stored through the alias (cusum['High_Cusum'] = ...)
columns_after_setitem(cols) == cols \cup {"High_Cusum", "Low_Cusum"}

\* cusum = data; cusum = cusum.assign(...): assign builds a new frame and
\* rebinds the local name, the caller's frame keeps its columns
columns_after_assign(cols) == cols

\* cusum.assign(High_Cusum=high_sum_final, Low_Cusum=low_sum_final)
assign(d, highs, lows) ==
    [i \in 1..Len(d) |-> [index |-> index_names(d, i), value |-> d[i],
                          High_Cusum |-> highs[i], Low_Cusum |-> lows[i]]]

\* cusum(data, mean, shift, threshold): the returned pair
cusum(d, mu, sh, thr) ==
    LET st == cusum_loop(d, Len(d), mu, sh, thr)
    IN  <<assign(d, st.high_sum_final, st.low_sum_final), st.anomalies>>

Values == (-MaxVal)..MaxVal

Series == UNION {[1..n -> Values] : n \in 0..MaxSeries}

\* the precipitation series of the control plot section in units of 0.001 in.:
\* dry days, 1.03 in. on October 11, 0.2 in. the day after, dry days again
PptSeries == <<0, 0, 0, 1030, 200, 0, 0>>

\* its mean and standard deviation as the notebook reports them
PptMean == 107

PptStdev == 267

\* the threshold cusum_plot is called with, in standard deviations
PlotThreshold == 2

\* control_plot: the positions of the points with value > mean_ + threshold*stdev_
\* (mean_ and stdev_ are the statistics of the series, the ones cusum_plot
\* hands to cusum as mean and shift)
control_plot(time_series, mean_, stdev_, thr) ==
    {k \in 1..Len(time_series) : time_series[k] > mean_ + thr * stdev_}

\* cusum_plot: cusum(time_series, mean_, stdev_, threshold*stdev_)
cusum_plot_args(time_series, mean_, stdev_, thr) ==
    [data |-> time_series, mean |-> mean_, shift |-> stdev_, threshold |-> thr * stdev_]

PptCall == cusum_plot_args(PptSeries, PptMean, PptStdev, PlotThreshold)

InitCusum ==
    \* the labelling cells are not run and feature_bagging is not called
    /\ norm_pts = 0 /\ anom_pts = 0 /\ cumulative_scores = <<>>
    /\ ranking_by_index = <<>> /\ label_pred = <<>> /\ enum_index = 0 /\ lpc = "off"
    /\ full_dim = 0 /\ size_subspace = 0 /\ subspace_index = <<>>
    /\ subspace_data = <<>> /\ bpc = "off"
    /\ \/ /\ data \in Series
          /\ mean \in Means
          /\ shift \in Shifts
          /\ threshold \in Thresholds
       \/ /\ data = PptCall.data
          /\ mean = PptCall.mean
          /\ shift = PptCall.shift
          /\ threshold = PptCall.threshold
    /\ data_columns = {"value"}
    /\ cpc = "idle"
    /\ index = 0
    /\ high_sum = 0 /\ low_sum = 0
    /\ high_sum_final = <<>> /\ low_sum_final = <<>>
    /\ anomalies = <<>>
    /\ cusum_ret = <<>>
    \* no metric cell is run
    /\ y_is_anomaly_true = <<>> /\ y_scores = <<>> /\ n_max = 0
    /\ pc = "off" /\ result = Outcome("none", <<>>)
    /\ ave_precision = <<0, 0>>
    \* the cost cell is not run
    /\ cm = [tn |-> 0, fp |-> 0, fn |-> 0, tp |-> 0]
    /\ false_pos_cost = 0 /\ false_neg_cost = 0
    /\ mpc = "off" /\ cost_ret = Outcome("none", <<>>) /\ stdout = <<>>
    /\ threads = <<>>

\* entry of cusum: the assignments before the loop
cusum_enter ==
    /\ cpc = "idle"
    /\ high_sum' = cusum_start.high_sum
    /\ low_sum' = cusum_start.low_sum
    /\ anomalies' = cusum_start.anomalies
    /\ high_sum_final' = cusum_start.high_sum_final
    /\ low_sum_final' = cusum_start.low_sum_final
    /\ index' = 0
    /\ cpc' = "loop"
    /\ UNCHANGED <<data, data_columns, mean, shift, threshold, cusum_ret, rankVars, costVars, threads, labelVars, bagVars>>

\* one iteration of the loop over enumerate(data_values)
cusum_step ==
    /\ cpc = "loop"
    /\ index < Len(data)
    /\ LET st == cusum_iter([high_sum |-> high_sum, low_sum |-> low_sum,
                             anomalies |-> anomalies,
                             high_sum_final |-> high_sum_final,
                             low_sum_final |-> low_sum_final],
                            data, index + 1, mean, shift, threshold)
       IN  /\ high_sum' = st.high_sum
           /\ low_sum' = st.low_sum
           /\ anomalies' = st.anomalies
           /\ high_sum_final' = st.high_sum_final
           /\ low_sum_final' = st.low_sum_final
    /\ index' = index + 1
    /\ UNCHANGED <<data, data_columns, mean, shift, threshold, cpc, cusum_ret, rankVars, costVars, threads, labelVars, bagVars>>

\* the loop is exhausted: build the augmented frame and return
cusum_return ==
    /\ cpc = "loop"
    /\ index = Len(data)
    /\ cusum_ret' = assign(data, high_sum_final, low_sum_final)
    /\ data_columns' = columns_after_assign(data_columns)
    /\ cpc' = "done"
    /\ UNCHANGED <<data, mean, shift, threshold, index, high_sum, low_sum,
                   high_sum_final, low_sum_final, anomalies, rankVars, costVars, threads, labelVars, bagVars>>

\* ------------------------------------------------------- misclass_cost
\* mutant: the two costs are applied to the wrong counts
misclass_cost_swapped(false_pos, false_neg, fp_cost, fn_cost) ==
    IF fp_cost <= 0 \/ fn_cost <= 0
    THEN [ret |-> Outcome("None", <<>>), out |-> <<"Costs must be greater than zero">>]
    ELSE [ret |-> Outcome("value", <<false_pos * fn_cost + false_neg * fp_cost>>),
          out |-> <<>>]

\* misclass_cost(false_pos, false_neg, false_pos_cost, false_neg_cost): what
\* it returns and what it prints; non-positive costs print a line and return
\* None, nothing is raised
misclass_cost(false_pos, false_neg, fp_cost, fn_cost) ==
    IF fp_cost <= 0 \/ fn_cost <= 0
    THEN [ret |-> Outcome("None", <<>>), out |-> <<"Costs must be greater than zero">>]
    ELSE [ret |-> Outcome("value", <<false_pos * fp_cost + false_neg * fn_cost>>),
          out |-> <<>>]

Counts == 0..MaxCount

Costs == (-1)..MaxCost

InitCost ==
    \* the labelling cells are not run and feature_bagging is not called
    /\ norm_pts = 0 /\ anom_pts = 0 /\ cumulative_scores = <<>>
    /\ ranking_by_index = <<>> /\ label_pred = <<>> /\ enum_index = 0 /\ lpc = "off"
    /\ full_dim = 0 /\ size_subspace = 0 /\ subspace_index = <<>>
    /\ subspace_data = <<>> /\ bpc = "off"
    /\ cm \in [tn : Counts, fp : Counts, fn : Counts, tp : Counts]
    /\ false_pos_cost \in Costs
    /\ false_neg_cost \in Costs
    /\ mpc = "ready"
    /\ cost_ret = Outcome("none", <<>>)
    /\ stdout = <<>>
    /\ threads = <<>>
    \* no metric cell is run
    /\ y_is_anomaly_true = <<>> /\ y_scores = <<>> /\ n_max = 0
    /\ pc = "off" /\ result = Outcome("none", <<>>)
    /\ ave_precision = <<0, 0>>
    \* no cusum call is made
    /\ data = <<>> /\ data_columns = {} /\ mean = 0 /\ shift = 0 /\ threshold = 0
    /\ cpc = "off" /\ index = 0 /\ high_sum = 0 /\ low_sum = 0
    /\ high_sum_final = <<>> /\ low_sum_final = <<>>
    /\ anomalies = <<>> /\ cusum_ret = <<>>

\* tn, fp, fn, tp = cm.ravel(); misclass_cost(fp, fn, false_pos_cost, false_neg_cost)
Call_misclass_cost ==
    /\ mpc = "ready"
    /\ LET r == misclass_cost(cm.fp, cm.fn, false_pos_cost, false_neg_cost)
       IN  /\ cost_ret' = r.ret
           /\ stdout' = stdout \o r.out
    /\ mpc' = "called"
    /\ UNCHANGED <<cm, false_pos_cost, false_neg_cost, rankVars, cusumVars, threads, labelVars, bagVars>>

\* ------------------------------------------- calls from several threads
Threads == {1, 2}

\* the arguments the threads pass: each call gets its own series or lists
ThreadValues == {-2, 2}

ThreadSeries == UNION {[1..n -> ThreadValues] : n \in 0..2}

ThreadParams == [mean |-> 0, shift |-> 1, threshold |-> 1]

ThreadLabels == [1..2 -> BOOLEAN]

ThreadScores == [1..2 -> {0, 1}]

\* a thread that has not called anything yet
NoCall == [fn |-> "none", pc |-> "new", ncalls |-> 0,
           labels |-> <<>>, scores |-> <<>>, data |-> <<>>,
           index |-> 0, high_sum |-> 0, low_sum |-> 0,
           high_sum_final |-> <<>>, low_sum_final |-> <<>>, anomalies |-> <<>>,
           sorted_labels |-> <<>>, ret |-> <<>>]

\* the five locals of cusum held in a thread's frame
Locals(f) == [high_sum |-> f.high_sum, low_sum |-> f.low_sum,
              anomalies |-> f.anomalies,
              high_sum_final |-> f.high_sum_final,
              low_sum_final |-> f.low_sum_final]

WithLocals(f, st) == [f EXCEPT !.high_sum = st.high_sum, !.low_sum = st.low_sum,
                               !.anomalies = st.anomalies,
                               !.high_sum_final = st.high_sum_final,
                               !.low_sum_final = st.low_sum_final]

\* mutant: the accumulators are module-level names, bound once and kept
call_locals_carried(left) ==
    [cusum_start EXCEPT !.high_sum = left.high_sum, !.low_sum = left.low_sum]

\* the locals at the top of a cusum call: the assignments bind fresh values
\* whatever an earlier call of the thread left behind
call_locals(left) == cusum_start

InitThreads ==
    \* the labelling cells are not run and feature_bagging is not called
    /\ norm_pts = 0 /\ anom_pts = 0 /\ cumulative_scores = <<>>
    /\ ranking_by_index = <<>> /\ label_pred = <<>> /\ enum_index = 0 /\ lpc = "off"
    /\ full_dim = 0 /\ size_subspace = 0 /\ subspace_index = <<>>
    /\ subspace_data = <<>> /\ bpc = "off"
    /\ threads = [t \in Threads |-> NoCall]
    \* no metric cell is run
    /\ y_is_anomaly_true = <<>> /\ y_scores = <<>> /\ n_max = 0
    /\ pc = "off" /\ result = Outcome("none", <<>>)
    /\ ave_precision = <<0, 0>>
    \* no cusum call is made outside the threads
    /\ data = <<>> /\ data_columns = {} /\ mean = 0 /\ shift = 0 /\ threshold = 0
    /\ cpc = "off" /\ index = 0 /\ high_sum = 0 /\ low_sum = 0
    /\ high_sum_final = <<>> /\ low_sum_final = <<>>
    /\ anomalies = <<>> /\ cusum_ret = <<>>
    \* the cost cell is not run
    /\ cm = [tn |-> 0, fp |-> 0, fn |-> 0, tp |-> 0]
    /\ false_pos_cost = 0 /\ false_neg_cost = 0
    /\ mpc = "off" /\ cost_ret = Outcome("none", <<>>) /\ stdout = <<>>

Frame(t, f) == /\ threads' = [threads EXCEPT ![t] = f]
               /\ UNCHANGED <<rankVars, cusumVars, costVars, labelVars, bagVars>>

\* a thread calls cusum on a series of its own; what its previous call left
\* in the accumulators is still there until the new call binds its locals
thread_call_cusum ==
    \E t \in Threads : \E d \in ThreadSeries :
        /\ threads[t].pc \in {"new", "done"}
        /\ threads[t].ncalls < MaxCalls
        /\ Frame(t, [NoCall EXCEPT !.fn = "cusum", !.pc = "idle",
                                   !.ncalls = threads[t].ncalls + 1,
                                   !.data = d,
                                   !.high_sum = threads[t].high_sum,
                                   !.low_sum = threads[t].low_sum])

\* a thread calls precision_at_n on lists of its own
thread_call_precision_at_n ==
    \E t \in Threads : \E l \in ThreadLabels : \E sc \in ThreadScores :
        /\ threads[t].pc \in {"new", "done"}
        /\ threads[t].ncalls < MaxCalls
        /\ Frame(t, [NoCall EXCEPT !.fn = "precision_at_n", !.pc = "idle",
                                   !.ncalls = threads[t].ncalls + 1,
                                   !.labels = l, !.scores = sc,
                                   !.high_sum = threads[t].high_sum,
                                   !.low_sum = threads[t].low_sum])

\* cusum in a thread: the assignments before the loop
thread_cusum_enter ==
    \E t \in Threads :
        /\ threads[t].fn = "cusum" /\ threads[t].pc = "idle"
        /\ Frame(t, [WithLocals(threads[t], call_locals(Locals(threads[t])))
                        EXCEPT !.index = 0, !.pc = "loop"])

\* cusum in a thread: one iteration of the loop
thread_cusum_step ==
    \E t \in Threads :
        /\ threads[t].fn = "cusum" /\ threads[t].pc = "loop"
        /\ threads[t].index < Len(threads[t].data)
        /\ Frame(t, [WithLocals(threads[t],
                                cusum_iter(Locals(threads[t]), threads[t].data,
                                           threads[t].index + 1, ThreadParams.mean,
                                           ThreadParams.shift, ThreadParams.threshold))
                        EXCEPT !.index = threads[t].index + 1])

\* cusum in a thread: the frame is built and returned with the anomalies
thread_cusum_return ==
    \E t \in Threads :
        /\ threads[t].fn = "cusum" /\ threads[t].pc = "loop"
        /\ threads[t].index = Len(threads[t].data)
        /\ Frame(t, [threads[t] EXCEPT
                        !.ret = <<assign(threads[t].data, threads[t].high_sum_final,
                                         threads[t].low_sum_final),
                                  threads[t].anomalies>>,
                        !.pc = "done"])

\* precision_at_n in a thread: n_max and the sorted labels are bound
thread_precision_sort ==
    \E t \in Threads :
        /\ threads[t].fn = "precision_at_n" /\ threads[t].pc = "idle"
        /\ Frame(t, [threads[t] EXCEPT
                        !.sorted_labels = is_anomaly_sorted_by_score(threads[t].labels,
                                                                     threads[t].scores),
                        !.pc = "sorted"])

\* precision_at_n in a thread: the list comprehension is returned
thread_precision_return ==
    \E t \in Threads :
        /\ threads[t].fn = "precision_at_n" /\ threads[t].pc = "sorted"
        /\ Frame(t, [threads[t] EXCEPT
                        !.ret = [n \in 1..Len(threads[t].scores) |->
                                    Rat(CountTrue(threads[t].sorted_labels, n), n)],
                        !.pc = "done"])

\* ------------------------------------- ranking and labelling (part_000)
\* the scores the detector gives (the lower, the more anomalous)
CumScores == {-2, -1, 0}

\* np.argsort(a): the positions of a, counted from 0, in ascending order of
\* the values; the default sort is not stable, equal values come in any order
argsort(a) ==
    {[k \in 1..Len(a) |-> q[k] - 1] :
        q \in {r \in Permutations(1..Len(a)) :
                  \A k \in 1..(Len(a) - 1) : a[r[k]] <= a[r[k + 1]]}}

\* label_pred[item] = 1, item counted from 0
set_label(labels, item) == [labels EXCEPT ![item + 1] = 1]

\* all_data is norm_pts normal points followed by anom_pts anomalies
InitLabel ==
    /\ norm_pts \in 0..MaxNorm
    /\ anom_pts \in 0..MaxAnom
    /\ cumulative_scores \in [1..(norm_pts + anom_pts) -> CumScores]
    /\ ranking_by_index = <<>>
    /\ label_pred = <<>>
    /\ enum_index = 0
    /\ lpc = "ready"
    /\ full_dim = 0 /\ size_subspace = 0 /\ subspace_index = <<>>
    /\ subspace_data = <<>> /\ bpc = "off"
    \* no metric cell is run
    /\ y_is_anomaly_true = <<>> /\ y_scores = <<>> /\ n_max = 0
    /\ pc = "off" /\ result = Outcome("none", <<>>)
    /\ ave_precision = <<0, 0>>
    \* no cusum call is made
    /\ data = <<>> /\ data_columns = {} /\ mean = 0 /\ shift = 0 /\ threshold = 0
    /\ cpc = "off" /\ index = 0 /\ high_sum = 0 /\ low_sum = 0
    /\ high_sum_final = <<>> /\ low_sum_final = <<>>
    /\ anomalies = <<>> /\ cusum_ret = <<>>
    \* the cost cell is not run
    /\ cm = [tn |-> 0, fp |-> 0, fn |-> 0, tp |-> 0]
    /\ false_pos_cost = 0 /\ false_neg_cost = 0
    /\ mpc = "off" /\ cost_ret = Outcome("none", <<>>) /\ stdout = <<>>
    /\ threads = <<>>

\* ranking_by_index = np.argsort(cumulative_scores)
rank_cell ==
    /\ lpc = "ready"
    /\ ranking_by_index' \in argsort(cumulative_scores)
    /\ lpc' = "ranked"
    /\ UNCHANGED <<norm_pts, anom_pts, cumulative_scores, label_pred, enum_index,
                   rankVars, cusumVars, costVars, threads, bagVars>>

\* label_pred = [0]*len(all_data), and the loop starts
label_start ==
    /\ lpc = "ranked"
    /\ label_pred' = [k \in 1..Len(cumulative_scores) |-> 0]
    /\ enum_index' = 0
    /\ lpc' = "loop"
    /\ UNCHANGED <<norm_pts, anom_pts, cumulative_scores, ranking_by_index,
                   rankVars, cusumVars, costVars, threads, bagVars>>

\* one iteration: label_pred[item] = 1, then break if index == anom_pts
label_step ==
    /\ lpc = "loop"
    /\ enum_index < Len(ranking_by_index)
    /\ label_pred' = set_label(label_pred, ranking_by_index[enum_index + 1])
    /\ IF enum_index = anom_pts
          THEN lpc' = "done" /\ UNCHANGED enum_index
          ELSE lpc' = lpc /\ enum_index' = enum_index + 1
    /\ UNCHANGED <<norm_pts, anom_pts, cumulative_scores, ranking_by_index,
                   rankVars, cusumVars, costVars, threads, bagVars>>

\* ranking_by_index is used up: the loop ends without a break
label_exhausted ==
    /\ lpc = "loop"
    /\ enum_index >= Len(ranking_by_index)
    /\ lpc' = "done"
    /\ UNCHANGED <<norm_pts, anom_pts, cumulative_scores, ranking_by_index, label_pred,
                   enum_index, rankVars, cusumVars, costVars, threads, bagVars>>

\* ------------------------------------------- feature_bagging (part_000)
\* np.random.randint(low, high): an integer from low to high - 1; low >= high
\* raises ValueError (the empty set here)
randint(low, high) == low..(high - 1)

\* np.random.choice(a, size, replace=False): size different integers of
\* 0..a-1, in the order they are drawn
choice(a, size) ==
    {sq \in [1..size -> 0..(a - 1)] :
        \A i, j \in 1..size : i # j => sq[i] # sq[j]}

\* data.T[sorted(subspace_index),:].T, the data being its columns 0..full_dim-1:
\* the chosen columns in ascending order of their position
RECURSIVE select_columns(_)
select_columns(idx) ==
    IF idx = <<>> THEN <<>>
    ELSE LET rest == select_columns(Tail(idx))
             before(x) == x < idx[1]
             after(x) == x >= idx[1]
         IN  SelectSeq(rest, before) \o <<idx[1]>> \o SelectSeq(rest, after)

InitBagging ==
    /\ full_dim \in 1..MaxDim
    /\ size_subspace = 0
    /\ subspace_index = <<>>
    /\ subspace_data = <<>>
    /\ bpc = "ready"
    /\ norm_pts = 0 /\ anom_pts = 0 /\ cumulative_scores = <<>>
    /\ ranking_by_index = <<>> /\ label_pred = <<>> /\ enum_index = 0 /\ lpc = "off"
    \* no metric cell is run
    /\ y_is_anomaly_true = <<>> /\ y_scores = <<>> /\ n_max = 0
    /\ pc = "off" /\ result = Outcome("none", <<>>)
    /\ ave_precision = <<0, 0>>
    \* no cusum call is made
    /\ data = <<>> /\ data_columns = {} /\ mean = 0 /\ shift = 0 /\ threshold = 0
    /\ cpc = "off" /\ index = 0 /\ high_sum = 0 /\ low_sum = 0
    /\ high_sum_final = <<>> /\ low_sum_final = <<>>
    /\ anomalies = <<>> /\ cusum_ret = <<>>
    \* the cost cell is not run
    /\ cm = [tn |-> 0, fp |-> 0, fn |-> 0, tp |-> 0]
    /\ false_pos_cost = 0 /\ false_neg_cost = 0
    /\ mpc = "off" /\ cost_ret = Outcome("none", <<>>) /\ stdout = <<>>
    /\ threads = <<>>

\* size_subspace = np.random.randint(full_dim // 2, full_dim - 1)
bagging_randint ==
    /\ bpc = "ready"
    /\ randint(full_dim \div 2, full_dim - 1) # {}
    /\ size_subspace' \in randint(full_dim \div 2, full_dim - 1)
    /\ bpc' = "sized"
    /\ UNCHANGED <<full_dim, subspace_index, subspace_data,
                   rankVars, cusumVars, costVars, threads, labelVars>>

\* np.random.randint raises ValueError: low >= high
bagging_randint_raises ==
    /\ bpc = "ready"
    /\ randint(full_dim \div 2, full_dim - 1) = {}
    /\ bpc' = "raised"
    /\ UNCHANGED <<full_dim, size_subspace, subspace_index, subspace_data,
                   rankVars, cusumVars, costVars, threads, labelVars>>

\* subspace_index = np.random.choice(full_dim, size_subspace, replace=False)
bagging_choice ==
    /\ bpc = "sized"
    /\ subspace_index' \in choice(full_dim, size_subspace)
    /\ bpc' = "chosen"
    /\ UNCHANGED <<full_dim, size_subspace, subspace_data,
                   rankVars, cusumVars, costVars, threads, labelVars>>

\* subspace_data = (data.T[sorted(subspace_index),:]).T; return subspace_data
bagging_return ==
    /\ bpc = "chosen"
    /\ subspace_data' = select_columns(subspace_index)
    /\ bpc' = "done"
    /\ UNCHANGED <<full_dim, size_subspace, subspace_index,
                   rankVars, cusumVars, costVars, threads, labelVars>>

\* -------------------------------------------------------- specifications
NextRank == \/ Call_precision_at_n
            \/ Call_custom_average_precision
            \/ Call_adjusted

SpecRank == InitRank /\ [][NextRank]_vars

NextCusum == \/ cusum_enter
             \/ cusum_step
             \/ cusum_return

SpecCusum == InitCusum /\ [][NextCusum]_vars

NextCost == Call_misclass_cost

SpecCost == InitCost /\ [][NextCost]_vars

NextThreads == \/ thread_call_cusum
               \/ thread_call_precision_at_n
               \/ thread_cusum_enter
               \/ thread_cusum_step
               \/ thread_cusum_return
               \/ thread_precision_sort
               \/ thread_precision_return

SpecThreads == InitThreads /\ [][NextThreads]_vars

NextLabel == \/ rank_cell
             \/ label_start
             \/ label_step
             \/ label_exhausted

SpecLabel == InitLabel /\ [][NextLabel]_vars

NextBagging == \/ bagging_randint
               \/ bagging_randint_raises
               \/ bagging_choice
               \/ bagging_return

SpecBagging == InitBagging /\ [][NextBagging]_vars

\* ================================================================ claims
N == Len(y_scores)

EqualLength == Len(y_is_anomaly_true) = Len(y_scores)

\* the number of entries asked for: n_max, or the full length when n_max is 0
Asked == IF n_max = 0 THEN N ELSE n_max

\* r ranks the observations ascending by score (rank 1 = lowest score)
IsRanking(r) == \A i, j \in 1..N : i < j => y_scores[r[i]] <= y_scores[r[j]]

\* the number of anomalies among the n first observations of ranking r
TrueAmong(r, n) == Cardinality({i \in 1..n : y_is_anomaly_true[r[i]]})

\* C1: for equal-length labels and scores and a cap n_max in 0..N, the list
\* returned by precision_at_n holds, for every n in 1..n_max (1..N when n_max
\* is 0), exactly (number of True labels among the n lowest-scored
\* observations) / n, for one ranking of the observations ascending by score.
Thm_C1 ==
    (pc = "precision_at_n" /\ EqualLength /\ n_max \in 0..N) =>
        /\ DOMAIN result.val = 1..Asked
        /\ \E r \in Permutations(1..N) :
              /\ IsRanking(r)
              /\ \A n \in 1..Asked :
                    /\ result.val[n][2] > 0
                    /\ result.val[n][1] * n = TrueAmong(r, n) * result.val[n][2]

\* C1 witness: a full-length call on three observations given out of score
\* order, one anomaly not ranked first
Wit_C1 ==
    /\ pc = "precision_at_n" /\ EqualLength /\ n_max = 0 /\ N = 3
    /\ y_scores[1] > y_scores[2] /\ y_scores[2] < y_scores[3]
    /\ y_is_anomaly_true = <<TRUE, FALSE, FALSE>>
    /\ result.val[1] = <<0, 1>> /\ result.val[3] = <<1, 3>>

FracNum == Cardinality({i \in 1..Len(y_is_anomaly_true) : y_is_anomaly_true[i]})

FracDen == Len(y_is_anomaly_true)

\* adj is the adjustment of raw: adj * (1 - frac) = raw - frac, which sends
\* raw = frac to 0 and raw = 1 to 1
IsAdjustmentOf(adj, raw) ==
    /\ IsFinite(adj)
    /\ adj[1] * (FracDen - FracNum) * raw[2] = (raw[1] * FracDen - FracNum * raw[2]) * adj[2]
    /\ (raw[1] * FracDen = FracNum * raw[2]) => adj = <<0, 1>>
    /\ (raw[1] = raw[2]) => adj = <<1, 1>>

\* C7: whenever the anomaly fraction is not 1, every adjusted P@n and the
\* adjusted average precision equal (raw - frac) / (1 - frac); a raw value
\* equal to the fraction is mapped to 0 and a raw value of 1 to 1.
Thm_C7 ==
    (pc = "adjusted" /\ FracDen > 0 /\ FracNum # FracDen) =>
        /\ result.kind = "adjusted"
        /\ Len(result.val) = N + 1
        /\ \A j \in 1..N :
              IsAdjustmentOf(result.val[j], precision_at_n(y_is_anomaly_true, y_scores, 0)[j])
        /\ IsAdjustmentOf(result.val[N + 1], ave_precision)

\* C7 witness: one anomaly in three, ranked first: P@1 = 1 is adjusted to 1,
\* P@3 = 1/3 = fraction to 0, and an average precision of 1/3 to 0
Wit_C7 ==
    /\ pc = "adjusted" /\ N = 3 /\ FracNum = 1
    /\ result.val[1] = <<1, 1>>
    /\ result.val[3] = <<0, 1>>
    /\ ave_precision = <<1, 3>> /\ result.val[4] = <<0, 1>>
    /\ result.val[2] = <<1, 4>>

\* the value max(0, x) and min(0, x)
ClampLow(x) == IF x > 0 THEN x ELSE 0

ClampHigh(x) == IF x < 0 THEN x ELSE 0

\* the sums recorded for the point before point k (0, 0 before the first)
PrevHigh(k) == IF k = 1 THEN 0 ELSE high_sum_final[k - 1]

PrevLow(k) == IF k = 1 THEN 0 ELSE low_sum_final[k - 1]

InCusum == cpc \in {"loop", "done"}

\* C3: the sums start at 0 and the pair recorded for the k-th point is
\* high_k = max(0, high_{k-1} + value_k - mean - shift) and
\* low_k = min(0, low_{k-1} + value_k - mean + shift); the accumulators hold
\* the last recorded pair; the returned frame has one row per point, carrying
\* that point's index, value and pair.
Thm_C3 ==
    InCusum =>
        /\ Len(high_sum_final) = index /\ Len(low_sum_final) = index
        /\ \A k \in 1..index :
              /\ high_sum_final[k] = ClampLow(PrevHigh(k) + data[k] - mean - shift)
              /\ low_sum_final[k] = ClampHigh(PrevLow(k) + data[k] - mean + shift)
        /\ high_sum = PrevHigh(index + 1) /\ low_sum = PrevLow(index + 1)
        /\ cpc = "done" =>
              /\ index = Len(data)
              /\ Len(cusum_ret) = Len(data)
              /\ \A k \in 1..Len(data) :
                    cusum_ret[k] = [index |-> k, value |-> data[k],
                                    High_Cusum |-> high_sum_final[k],
                                    Low_Cusum |-> low_sum_final[k]]

\* C3 witness: a finished call on three points in which the high sum
\* accumulates over two points and the low sum is clamped back to 0
Wit_C3 ==
    /\ cpc = "done" /\ Len(data) = 3 /\ mean = 0 /\ shift = 1
    /\ data = <<2, 2, -2>>
    /\ high_sum_final = <<1, 2, 0>>
    /\ low_sum_final = <<0, 0, -1>>
    /\ Len(cusum_ret) = 3

\* the point at position k crossed the threshold when it was processed
Crossed(k) == high_sum_final[k] > threshold \/ low_sum_final[k] < -threshold

\* C4: the anomalies list holds exactly the processed points whose high sum
\* is > threshold or whose low sum is < -threshold right after they are
\* processed, once each, in time order, as (index, value); with no such
\* point the list is empty and the call still returns.
Thm_C4 ==
    InCusum =>
        /\ Len(anomalies) = Cardinality({k \in 1..index : Crossed(k)})
        /\ \A j \in 1..Len(anomalies) :
              /\ anomalies[j][1] \in 1..index
              /\ Crossed(anomalies[j][1])
              /\ anomalies[j][2] = data[anomalies[j][1]]
              /\ j > 1 => anomalies[j - 1][1] < anomalies[j][1]

\* C4 witness: a finished call in which one point sits exactly on the
\* threshold and is not flagged while a later one exceeds it and is
Wit_C4 ==
    /\ cpc = "done" /\ threshold = 1 /\ Len(data) = 3
    /\ high_sum_final[1] = 1 /\ low_sum_final[1] = 0
    /\ high_sum_final[2] = 2
    /\ anomalies = <<<<2, data[2]>>>>

\* the flags of the first k points: the anomalies with index at most k
FlagsUpTo(anoms, k) == SelectSeq(anoms, LAMBDA a : a[1] <= k)

\* the series that agree with the processed one on its first k points and
\* then stop or go on with one arbitrary point
Continuations(k) == {SubSeq(data, 1, k)} \cup {Append(SubSeq(data, 1, k), v) : v \in Values}

\* C5: for fixed mean, shift and threshold, a series that agrees with the
\* processed one on its first k points gets, from its own call, the same pairs
\* and the same flags for those k points.  The series taken are the first k
\* points alone and the first k points followed by any one point; every series
\* is processed in some behaviour, so any two series sharing their first k
\* points both agree there with the call on the shared points alone.
Thm_C5 ==
    cpc = "done" =>
        \A k \in 0..index : \A other \in Continuations(k) :
            LET call == cusum(other, mean, shift, threshold)
            IN  /\ \A i \in 1..k :
                      /\ call[1][i].High_Cusum = high_sum_final[i]
                      /\ call[1][i].Low_Cusum = low_sum_final[i]
                /\ FlagsUpTo(call[2], k) = FlagsUpTo(anomalies, k)

\* C5 witness: a finished call whose second point is flagged and is followed
\* by a large opposite value that would change the flag if it were looked at
Wit_C5 ==
    /\ cpc = "done" /\ Len(data) = 3 /\ threshold = 1 /\ mean = 0 /\ shift = 0
    /\ data = <<1, 1, -1>>
    /\ high_sum_final = <<1, 2, 1>>
    /\ anomalies = <<<<2, 1>>>>

SomeAnomaly == \E i \in 1..Len(y_is_anomaly_true) : y_is_anomaly_true[i]

\* the mean of precision@n over the ranks n whose observation is an anomaly,
\* ranks and precision@n both taken from precision_at_n's view of the input
MeanPrecisionAtAnomalies ==
    LET labs == is_anomaly_sorted_by_score(y_is_anomaly_true, y_scores)
        p    == precision_at_n(y_is_anomaly_true, y_scores, 0)
    IN  RatDiv(RatSum([n \in 1..N |-> IF labs[n] THEN p[n] ELSE Rat(0, 1)]),
               Rat(FracNum, 1))

\* C2: for equal-length input in any order holding at least one anomaly,
\* custom_average_precision returns (sum of precision@n over the ranks n at
\* which the n-th lowest-scored observation is an anomaly) / (number of
\* anomalies), precision@n being precision_at_n's value for the same input.
Claim_C2 ==
    (pc = "custom_average_precision" /\ EqualLength /\ SomeAnomaly) =>
        /\ result.kind = "value"
        /\ result.val = <<MeanPrecisionAtAnomalies>>

\* C8: precision_at_n fails with InvalidArgument whenever labels and scores
\* differ in length; it returns no list computed from a truncated pairing.
Claim_C8 ==
    (pc = "precision_at_n" /\ ~EqualLength) => result.kind = "InvalidArgument"

\* C9: precision_at_n fails with InvalidArgument whenever n_max exceeds the
\* sequence length or is negative; it returns no list in those cases.
Claim_C9 ==
    (pc = "precision_at_n" /\ EqualLength /\ (n_max > N \/ n_max < 0)) =>
        result.kind = "InvalidArgument"

\* C10: custom_average_precision on labels without a True entry fails with
\* DivisionUndefined; it returns no value (nan) and raises no other error.
Claim_C10 ==
    (pc = "custom_average_precision" /\ EqualLength /\ ~SomeAnomaly) =>
        result.kind = "DivisionUndefined"

\* C11: the adjustment fails with DivisionUndefined when the anomaly fraction
\* is 1 (every observation is an anomaly); no adjusted value is produced.
Claim_C11 ==
    (pc = "adjusted" /\ FracDen > 0 /\ FracNum = FracDen) =>
        result.kind = "DivisionUndefined"

IsLectureInput == y_is_anomaly_true = LectureLabels /\ y_scores = LectureScores

\* C13: on the lecture's four rows precision_at_n returns [1, 1/2, 2/3, 1/2].
Thm_C13 ==
    (pc = "precision_at_n" /\ IsLectureInput /\ n_max \in {0, 4}) =>
        result = Outcome("list", <<<<1, 1>>, <<1, 2>>, <<2, 3>>, <<1, 2>>>>)

\* C13 witness: the check cell has run precision_at_n on the lecture's rows
Wit_C13 ==
    /\ pc = "precision_at_n" /\ IsLectureInput /\ n_max = 0
    /\ Len(result.val) = 4

\* C14: on the lecture's four rows custom_average_precision returns
\* (1 + 2/3) / 2 = 5/6.
Thm_C14 ==
    (pc = "custom_average_precision" /\ IsLectureInput) =>
        result = Outcome("value", <<<<5, 6>>>>)

\* C14 witness: the check cell has run custom_average_precision on the
\* lecture's rows and got a number
Wit_C14 ==
    /\ pc = "custom_average_precision" /\ IsLectureInput
    /\ result.kind = "value"

\* C12: cusum fails with InvalidArgument when shift < 0 or threshold < 0,
\* before any running sum or anomaly is produced; it never returns.
Claim_C12 ==
    (shift < 0 \/ threshold < 0) =>
        /\ cpc # "done"
        /\ high_sum_final = <<>>
        /\ anomalies = <<>>

IsPptCall == /\ data = PptSeries /\ mean = PptMean
             /\ shift = PptStdev /\ threshold = PlotThreshold * PptStdev

\* the positions of the flagged points
Flagged == {anomalies[j][1] : j \in 1..Len(anomalies)}

AllZero == \A k \in 1..Len(data) : data[k] = 0

\* C16: on an all-zero series with mean 0, shift >= 0 and threshold > 0 no
\* point is flagged and both sums are 0 at every point.
Thm_C16 ==
    (InCusum /\ AllZero /\ mean = 0 /\ shift >= 0 /\ threshold > 0) =>
        /\ anomalies = <<>>
        /\ high_sum = 0 /\ low_sum = 0
        /\ \A k \in 1..index : high_sum_final[k] = 0 /\ low_sum_final[k] = 0
        /\ cpc = "done" =>
              \A k \in 1..Len(data) :
                  cusum_ret[k].High_Cusum = 0 /\ cusum_ret[k].Low_Cusum = 0

\* C16 witness: a finished call on three zeros with a positive shift
Wit_C16 ==
    /\ cpc = "done" /\ data = <<0, 0, 0>> /\ mean = 0
    /\ shift = 1 /\ threshold = 1
    /\ Len(cusum_ret) = 3 /\ anomalies = <<>>

\* C18: no step of cusum changes the caller's series: it keeps its points,
\* their order and its columns (no High_Cusum / Low_Cusum); the sums are in
\* the returned frame only, next to the unchanged index and values.
Thm_C18 ==
    /\ [][data' = data /\ data_columns' = data_columns]_vars
    /\ [](cpc = "done" =>
            /\ data_columns = {"value"}
            /\ Len(cusum_ret) = Len(data)
            /\ \A k \in 1..Len(data) :
                  /\ cusum_ret[k].index = k /\ cusum_ret[k].value = data[k]
                  /\ cusum_ret[k].High_Cusum = high_sum_final[k]
                  /\ cusum_ret[k].Low_Cusum = low_sum_final[k])

\* C18 witness: a returned frame carrying non-zero sums while the caller's
\* frame still has its single column
Wit_C18 ==
    /\ cpc = "done" /\ Len(data) = 3 /\ data_columns = {"value"}
    /\ cusum_ret[2].High_Cusum > 0 /\ cusum_ret[3].Low_Cusum < 0
    /\ cusum_ret[2].value = data[2]

\* C19: misclass_cost raises an error whenever one of the costs is <= 0; it
\* does not return normally.
Claim_C19 ==
    (mpc = "called" /\ (false_pos_cost <= 0 \/ false_neg_cost <= 0)) =>
        cost_ret.kind = "Error"

\* the points of the confusion matrix that are misclassified
Misclassified == (cm.tn + cm.fp + cm.fn + cm.tp) - (cm.tn + cm.tp)

\* C20: with both costs > 0 misclass_cost returns
\* false_pos * false_pos_cost + false_neg * false_neg_cost: the correctly
\* classified points add nothing, and for equal costs c the result is
\* c times the number of misclassified points.
Thm_C20 ==
    (mpc = "called" /\ false_pos_cost > 0 /\ false_neg_cost > 0) =>
        /\ cost_ret.kind = "value"
        /\ cost_ret.val = <<cm.fp * false_pos_cost + cm.fn * false_neg_cost>>
        /\ false_pos_cost = false_neg_cost =>
              cost_ret.val[1] = false_pos_cost * Misclassified
        /\ (cm.fp = 0 /\ cm.fn = 0) => cost_ret.val[1] = 0
        /\ stdout = <<>>

\* C20 witness: unequal costs, both kinds of error and correctly classified
\* points present
Wit_C20 ==
    /\ mpc = "called" /\ false_pos_cost = 1 /\ false_neg_cost = 2
    /\ cm = [tn |-> 2, fp |-> 1, fn |-> 2, tp |-> 1]
    /\ cost_ret = Outcome("value", <<5>>)

\* what the call running in frame f returns when it is run alone
Alone(f) ==
    IF f.fn = "cusum"
    THEN cusum(f.data, ThreadParams.mean, ThreadParams.shift, ThreadParams.threshold)
    ELSE precision_at_n(f.labels, f.scores, 0)

\* C17: in every sequence of calls made by one thread and every interleaving
\* of the steps of two threads, a cusum call is at each point of its loop
\* where the same call run alone from accumulators (0, 0) is, and every
\* finished cusum or precision_at_n call has returned what it returns alone:
\* nothing is carried over from an earlier or a concurrent call.
Thm_C17 ==
    \A t \in Threads :
        LET f == threads[t]
        IN  /\ (f.fn = "cusum" /\ f.pc = "loop") =>
                   Locals(f) = cusum_loop(f.data, f.index, ThreadParams.mean,
                                          ThreadParams.shift, ThreadParams.threshold)
            /\ f.pc = "done" => f.ret = Alone(f)

\* C17 witness: thread 1 has finished its second call, a cusum call that
\* ends with both accumulators away from the ones its first call left, while
\* thread 2 is in the middle of a cusum loop with a non-zero high sum
Wit_C17 ==
    /\ threads[1].ncalls = 2 /\ threads[1].fn = "cusum" /\ threads[1].pc = "done"
    /\ threads[1].data = <<2, 2>> /\ threads[1].anomalies = <<<<2, 2>>>>
    /\ threads[2].fn = "cusum" /\ threads[2].pc = "loop"
    /\ threads[2].index = 1 /\ threads[2].high_sum = 1

\* the rank of observation i when equal scores keep their input order
StableRank(i) ==
    1 + Cardinality({j \in 1..N : \/ y_scores[j] < y_scores[i]
                                  \/ y_scores[j] = y_scores[i] /\ j < i})

\* the rank of observation i when equal scores are ordered by label, False
\* first (equal score and label: input order, which the curve cannot see)
LabelRank(i) ==
    1 + Cardinality({j \in 1..N :
          \/ y_scores[j] < y_scores[i]
          \/ /\ y_scores[j] = y_scores[i]
             /\ \/ ~y_is_anomaly_true[j] /\ y_is_anomaly_true[i]
                \/ y_is_anomaly_true[j] = y_is_anomaly_true[i] /\ j < i})

\* the curve is the one of the ranking rk
CurveOf(rk(_)) ==
    \A n \in 1..Asked :
        /\ result.val[n][2] > 0
        /\ result.val[n][1] * n =
              Cardinality({i \in 1..N : rk(i) <= n /\ y_is_anomaly_true[i]}) * result.val[n][2]

\* C21 as stated: observations of equal score keep their relative input
\* order in the ranking, whatever their labels.
Claim_C21 ==
    (pc = "precision_at_n" /\ EqualLength /\ n_max \in 0..N) => CurveOf(StableRank)

\* C21 as amended: among observations of equal score the ones labelled False
\* are ranked before the ones labelled True, whatever their input order.
Thm_C21 ==
    (pc = "precision_at_n" /\ EqualLength /\ n_max \in 0..N) => CurveOf(LabelRank)

\* C21 witness: two observations with one score, the anomaly given first,
\* and a curve that starts with the non-anomaly
Wit_C21 ==
    /\ pc = "precision_at_n" /\ n_max = 0 /\ N = 2
    /\ y_scores[1] = y_scores[2]
    /\ y_is_anomaly_true = <<TRUE, FALSE>>
    /\ result.val = <<<<0, 1>>, <<1, 2>>>>

\* every anomaly has a strictly lower score than every non-anomaly
Separated ==
    \A i, j \in 1..N :
        (y_is_anomaly_true[i] /\ ~y_is_anomaly_true[j]) => y_scores[i] < y_scores[j]

\* C26: for input with at least one anomaly custom_average_precision lies in
\* [0, 1], and it is 1 whenever every anomaly has a strictly lower score than
\* every non-anomaly, in whatever order the observations are given.
Claim_C26 ==
    (pc = "custom_average_precision" /\ EqualLength /\ SomeAnomaly) =>
        /\ result.kind = "value"
        /\ IsFinite(result.val[1])
        /\ 0 <= result.val[1][1] /\ result.val[1][1] <= result.val[1][2]
        /\ Separated => result.val[1] = <<1, 1>>

\* the input with its (score, label) pairs reordered by q
Reordered(seq, q) == [i \in 1..Len(seq) |-> seq[q[i]]]

\* C27: reordering the (score, label) pairs, each score kept with its label,
\* never changes the curve precision_at_n returns, ties included.
Thm_C27 ==
    (pc = "precision_at_n" /\ EqualLength) =>
        \A q \in Permutations(1..N) :
            precision_at_n(Reordered(y_is_anomaly_true, q), Reordered(y_scores, q), n_max)
                = result.val

\* C27 witness: three observations, two of them sharing a score but not a
\* label, given with the anomaly first and out of score order
Wit_C27 ==
    /\ pc = "precision_at_n" /\ n_max = 0 /\ N = 3
    /\ y_scores[1] = y_scores[3] /\ y_scores[2] < y_scores[1]
    /\ y_is_anomaly_true = <<TRUE, TRUE, FALSE>>
    /\ result.val = <<<<1, 1>>, <<1, 2>>, <<2, 3>>>>

\* C22: a point with value > mean + shift + threshold, or with value
\* < mean - shift - threshold, is flagged whatever the points before it are;
\* so with threshold = t x shift cusum flags every point the control chart
\* flags at t + 1 standard deviations (shift being the standard deviation).
Thm_C22 ==
    InCusum =>
        /\ \A k \in 1..index :
              (\/ data[k] > mean + shift + threshold
               \/ data[k] < mean - shift - threshold) => k \in Flagged
        /\ \A t \in 0..3 :
              threshold = t * shift =>
                  control_plot(SubSeq(data, 1, index), mean, shift, t + 1) \subseteq Flagged

\* C22 witness: points beyond mean +- (shift + threshold) on both sides, each
\* coming after a point that pulled the sums the other way, all flagged
Wit_C22 ==
    /\ cpc = "done" /\ data = <<-2, 2, -2>>
    /\ mean = 0 /\ shift = 1 /\ threshold = 0
    /\ control_plot(data, mean, shift, 1) = {2}
    /\ Flagged = {1, 2, 3}

\* C25: at every point of every series, for every mean, shift and threshold,
\* high_sum >= 0 and low_sum <= 0, in the accumulators and in the recorded sums.
Thm_C25 ==
    /\ high_sum >= 0 /\ low_sum <= 0
    /\ \A k \in 1..Len(high_sum_final) : high_sum_final[k] >= 0
    /\ \A k \in 1..Len(low_sum_final) : low_sum_final[k] <= 0
    /\ \A k \in 1..Len(cusum_ret) :
          cusum_ret[k].High_Cusum >= 0 /\ cusum_ret[k].Low_Cusum <= 0

\* C25 witness: a finished call in which the high sum rose and was clamped
\* back to 0 while the low sum went down
Wit_C25 ==
    /\ cpc = "done" /\ data = <<2, -2, -2>> /\ mean = 0 /\ shift = 1
    /\ high_sum_final = <<1, 0, 0>>
    /\ low_sum_final = <<0, -1, -2>>

\* every point from position j to the last processed one equals the mean
AtMeanFrom(j) == \A k \in j..index : data[k] = mean

\* C28: once every value equals the mean, with shift > 0 the high sum goes
\* down and the low sum up by shift per point until 0, a point that is not
\* flagged is followed by unflagged points only, and when both sums have
\* reached 0 no point is flagged any more; with shift = 0 the sums stay as
\* they are and a flagged point is followed by flagged points.
Claim_C28 ==
    InCusum =>
        \A j \in 1..index : AtMeanFrom(j) =>
            \A k \in j..index :
                /\ shift > 0 =>
                      /\ high_sum_final[k] = ClampLow(PrevHigh(k) - shift)
                      /\ low_sum_final[k] = ClampHigh(PrevLow(k) + shift)
                      /\ (k > 1 /\ ~Crossed(k - 1)) => ~Crossed(k)
                      /\ (high_sum_final[k] = 0 /\ low_sum_final[k] = 0) => ~Crossed(k)
                /\ shift = 0 =>
                      /\ high_sum_final[k] = PrevHigh(k)
                      /\ low_sum_final[k] = PrevLow(k)
                      /\ (k > 1 /\ Crossed(k - 1)) => Crossed(k)

\* the points labelled 1 (positions counted from 1)
Labelled == {k \in 1..Len(label_pred) : label_pred[k] = 1}

\* C23: when the labelling loop has ended, the points labelled 1 are exactly
\* the anom_pts points with the lowest scores (no unlabelled point has a lower
\* score than a labelled one) and their number equals anom_pts.
Claim_C23 ==
    lpc = "done" =>
        /\ Cardinality(Labelled) = anom_pts
        /\ \A i \in Labelled : \A j \in (1..Len(label_pred)) \ Labelled :
              cumulative_scores[i] <= cumulative_scores[j]

\* C24: for data with d features every integer from floor(d/2) to d-1 is a
\* subspace size feature_bagging can select, it selects no other size, and it
\* returns exactly that many distinct columns of the input.
Claim_C24 ==
    /\ bpc = "ready" =>
          \A m \in (full_dim \div 2)..(full_dim - 1) :
              ENABLED (bagging_randint /\ size_subspace' = m)
    /\ bpc \in {"sized", "chosen", "done"} =>
          size_subspace \in (full_dim \div 2)..(full_dim - 1)
    /\ bpc = "done" =>
          /\ Len(subspace_data) = size_subspace
          /\ \A i, j \in 1..Len(subspace_data) :
                i # j => subspace_data[i] # subspace_data[j]
          /\ \A i \in 1..Len(subspace_data) : subspace_data[i] \in 0..(full_dim - 1)

====
